---- MODULE Spec2Model ----
(***************************************************************************)
(* A model of jaxsim's relaxed-rigid contact model                         *)
(* (src/src/jaxsim/rbda/contacts/relaxed_rigid.py):                        *)
(*   RelaxedRigidContactsParams   build, valid, __hash__, __eq__           *)
(*   RelaxedRigidContacts         build, solver_options,                   *)
(*                                compute_contact_forces, _regularizers    *)
(*                                                                         *)
(* Floating-point numbers are modelled as extended rationals <<n, d>>:     *)
(*   d > 0   the finite value n/d in lowest terms                          *)
(*   <<1, 0>>, <<-1, 0>>   +inf and -inf                                   *)
(*   <<0, 0>>   NaN                                                        *)
(* so that a division by zero gives inf, inf * 0 gives NaN and a           *)
(* comparison with NaN is false, as in IEEE-754.  Rounding and the sign    *)
(* of zero are not modelled.                                               *)
(***************************************************************************)
EXTENDS Integers, Sequences, FiniteSets, TLC

(***************************************************************************)
(* Extended rational arithmetic.                                           *)
(***************************************************************************)
AbsInt(i) == IF i < 0 THEN -i ELSE i

SgnInt(i) == IF i > 0 THEN 1 ELSE IF i < 0 THEN -1 ELSE 0

RECURSIVE Gcd(_, _)
Gcd(a, b) == IF b = 0 THEN a ELSE Gcd(b, a % b)

\* The number n/d, normalised.
Q(n, d) ==
    IF d = 0 THEN <<SgnInt(n), 0>>
    ELSE LET g == Gcd(AbsInt(n), AbsInt(d))
             s == SgnInt(d)
         IN  <<(s * n) \div g, (s * d) \div g>>

Zero == <<0, 1>>
One == <<1, 1>>
Two == <<2, 1>>
Inf == <<1, 0>>
NaN == <<0, 0>>

IsNaN(a) == a[2] = 0 /\ a[1] = 0
IsInf(a) == a[2] = 0 /\ a[1] # 0
IsFinite(a) == a[2] # 0

FNeg(a) == <<-a[1], a[2]>>

\* The factors are reduced crosswise before they are multiplied.
FMul(a, b) ==
    IF a[2] = 0 \/ b[2] = 0 THEN <<SgnInt(a[1]) * SgnInt(b[1]), 0>>
    ELSE LET g1 == Gcd(AbsInt(a[1]), b[2])
             g2 == Gcd(AbsInt(b[1]), a[2])
         IN  <<(a[1] \div g1) * (b[1] \div g2), (a[2] \div g2) * (b[2] \div g1)>>

FAdd(a, b) ==
    IF a[2] = 0 /\ b[2] = 0 THEN (IF a[1] = b[1] THEN a ELSE NaN)
    ELSE IF a[2] = 0 THEN a
    ELSE IF b[2] = 0 THEN b
    ELSE LET g == Gcd(a[2], b[2])
         IN  Q(a[1] * (b[2] \div g) + b[1] * (a[2] \div g), (a[2] \div g) * b[2])

FSub(a, b) == FAdd(a, FNeg(b))

\* 1/a: 1/0 is inf, 1/inf is 0.
FRecip(a) == Q(a[2], a[1])

FDiv(a, b) == FMul(a, FRecip(b))

FAbs(a) == <<AbsInt(a[1]), a[2]>>

\* Comparisons: false as soon as one side is NaN.
FLt(a, b) ==
    /\ ~IsNaN(a)
    /\ ~IsNaN(b)
    /\ IF a[2] = 0 /\ b[2] = 0 THEN a[1] < b[1]
       ELSE a[1] * b[2] < b[1] * a[2]

FEq(a, b) == ~IsNaN(a) /\ ~IsNaN(b) /\ a = b

FLe(a, b) == FLt(a, b) \/ FEq(a, b)
FGt(a, b) == FLt(b, a)
FGe(a, b) == FLe(b, a)

\* jnp.power(a, k) for an integer-valued exponent k; power(x, 0) is 1.
RECURSIVE FPowNat(_, _)
FPowNat(a, k) == IF k = 0 THEN One ELSE FMul(a, FPowNat(a, k - 1))

FPow(a, k) == IF k >= 0 THEN FPowNat(a, k) ELSE FRecip(FPowNat(a, -k))

\* jnp.clip(a, lo, hi) = minimum(maximum(a, lo), hi); NaN propagates.
FClip(a, lo, hi) ==
    IF IsNaN(a) \/ IsNaN(lo) \/ IsNaN(hi) THEN NaN
    ELSE LET m == IF FLt(a, lo) THEN lo ELSE a
         IN  IF FGt(m, hi) THEN hi ELSE m

\* x * mask for a boolean mask: the mask is promoted to 1.0 or 0.0.
FMask(a, mask) == FMul(a, IF mask THEN One ELSE Zero)

(***************************************************************************)
(* Python values handed to the builders: <<"int", n, 1>>, <<"float", n, d>>, *)
(* <<"array", n, d>> (a 0-d jax array), <<"list", 0, 0>> (an unhashable      *)
(* value) and None.                                                          *)
(***************************************************************************)
None == <<"None", 0, 0>>

PyInt(n) == <<"int", n, 1>>
PyFloat(n, d) == <<"float", n, d>>
PyArray(n, d) == <<"array", n, d>>
PyList == <<"list", 0, 0>>

\* An optional argument that holds an object: Some(v), or Nothing for None.
Some(v) == [some |-> TRUE, val |-> v]
Nothing == [some |-> FALSE, val |-> <<>>]

\* jnp.array(v, dtype=float): the float value of an int, a float or an array.
AsFloatArray(v) == Q(v[2], v[3])

(***************************************************************************)
(* RelaxedRigidContactsParams                                              *)
(***************************************************************************)
ParamFields ==
    <<"time_constant", "damping_coefficient", "d_min", "d_max", "width",
      "midpoint", "power", "stiffness", "damping", "mu">>

FieldSet == {ParamFields[i] : i \in 1..Len(ParamFields)}

\* The default_factory of each dataclass field.
DefaultFactory(name) ==
    CASE name = "time_constant" -> PyArray(1, 100)
      [] name = "damping_coefficient" -> PyArray(1, 1)
      [] name = "d_min" -> PyArray(9, 10)
      [] name = "d_max" -> PyArray(95, 100)
      [] name = "width" -> PyArray(1, 10000)
      [] name = "midpoint" -> PyArray(1, 10)
      [] name = "power" -> PyArray(1, 1)
      [] name = "stiffness" -> PyArray(0, 1)
      [] name = "damping" -> PyArray(0, 1)
      [] name = "mu" -> PyArray(1, 2)

\* A build that tests the truth of an argument instead of "is not None": a
\* falsy argument (0) falls back to the default.
ParamsBuildFalsy(kw) ==
    [f \in FieldSet |->
        AsFloatArray(IF kw[f] # None /\ kw[f][2] # 0 THEN kw[f]
                     ELSE DefaultFactory(f))]

\* RelaxedRigidContactsParams.build(**kw): kw maps every field to a value or None.
ParamsBuild(kw) ==
    [f \in FieldSet |->
        AsFloatArray(IF kw[f] # None THEN kw[f] ELSE DefaultFactory(f))]

\* RelaxedRigidContactsParams.valid()
ParamsValid(p) ==
    /\ FGe(p.time_constant, Zero)
    /\ FGt(p.damping_coefficient, Zero)
    /\ FGe(p.d_min, Zero)
    /\ FLe(p.d_max, One)
    /\ FLe(p.d_min, p.d_max)
    /\ FGe(p.width, Zero)
    /\ FGe(p.midpoint, Zero)
    /\ FGe(p.power, Zero)
    /\ FGe(p.mu, Zero)

\* hash() of a Python float: an integral float hashes to its integer value,
\* except that -1 is reserved and replaced by -2; the other values of the
\* model hash to values of their own.
PyHashFloat(a) == IF a = <<-1, 1>> THEN <<-2, 1>> ELSE a

\* hash(HashedNumpyArray(a)) for a 0-d array: the hash of the 1-tuple of its
\* float; a tuple hash is a function of the hashes of its elements and is
\* kept as their sequence.
HashedNumpyArrayHash(a) == <<PyHashFloat(a)>>

\* A hash that leaves out the last field (mu).
ParamsHashShort(p) ==
    [i \in 1..(Len(ParamFields) - 1) |-> HashedNumpyArrayHash(p[ParamFields[i]])]

\* RelaxedRigidContactsParams.__hash__
ParamsHash(p) ==
    [i \in 1..Len(ParamFields) |-> HashedNumpyArrayHash(p[ParamFields[i]])]

\* RelaxedRigidContactsParams.__eq__
ParamsEq(p, q) == ParamsHash(p) = ParamsHash(q)

(***************************************************************************)
(* Python dicts: sequences of <<key, value>> in insertion order.           *)
(***************************************************************************)
HasKey(d, k) == \E i \in 1..Len(d) : d[i][1] = k

DictGet(d, k) == d[CHOOSE i \in 1..Len(d) : d[i][1] = k][2]

DictKeys(d) == [i \in 1..Len(d) |-> d[i][1]]

DictValues(d) == [i \in 1..Len(d) |-> d[i][2]]

\* dict(zip(keys, values, strict=True))
DictZip(keys, values) == [i \in 1..Len(keys) |-> <<keys[i], values[i]>>]

NotIn(d, e) == ~HasKey(d, e[1])

\* a | b: the keys of a in their order, with b's value where b has the key,
\* followed by the keys only b has.
DictUnion(a, b) ==
    [i \in 1..Len(a) |->
        IF HasKey(b, a[i][1]) THEN <<a[i][1], DictGet(b, a[i][1])>> ELSE a[i]]
    \o SelectSeq(b, LAMBDA e : NotIn(a, e))

\* d.pop(k): d without the key k.
DictPop(d, k) == SelectSeq(d, LAMBDA e : e[1] # k)

\* hash(v) raises TypeError for a list.
Hashable(v) == v[1] # "list"

(***************************************************************************)
(* RelaxedRigidContacts                                                    *)
(***************************************************************************)
\* The dataclass defaults of _solver_options_keys and _solver_options_values.
DefaultSolverOptionsKeys == <<"tol", "maxiter", "memory_size">>

DefaultSolverOptionsValues == <<PyFloat(1, 1000000), PyInt(50), PyInt(10)>>

\* FlatTerrain.build(): the plane z = 0.
FlatTerrain == [height |-> Zero, normal |-> <<Zero, Zero, One>>]

NoInstance == [raised |-> "none", built |-> FALSE]

\* A build that hashes the default options only, before the caller's are merged.
ContactsBuildHashDefaults(parameters, terrain, solver_options, kwargs) ==
    LET default_solver_options ==
            DictZip(DefaultSolverOptionsKeys, DefaultSolverOptionsValues)
        merged == DictUnion(default_solver_options,
                            IF solver_options.some THEN solver_options.val ELSE <<>>)
    IN  IF \E i \in 1..Len(default_solver_options) :
               ~Hashable(default_solver_options[i][2])
        THEN [raised |-> "ValueError", built |-> FALSE]
        ELSE [raised |-> "none", built |-> TRUE,
              parameters |-> IF parameters.some THEN parameters.val
                             ELSE ParamsBuild([f \in FieldSet |-> None]),
              terrain |-> IF terrain.some THEN terrain.val ELSE FlatTerrain,
              solver_options_keys |-> DictKeys(merged),
              solver_options_values |-> DictValues(merged)]

\* A build that stores the caller's options instead of the merged ones.
ContactsBuildNoMerge(parameters, terrain, solver_options, kwargs) ==
    LET default_solver_options ==
            DictZip(DefaultSolverOptionsKeys, DefaultSolverOptionsValues)
        merged == IF solver_options.some THEN solver_options.val
                  ELSE default_solver_options
    IN  IF \E i \in 1..Len(merged) : ~Hashable(merged[i][2])
        THEN [raised |-> "ValueError", built |-> FALSE]
        ELSE [raised |-> "none", built |-> TRUE,
              parameters |-> IF parameters.some THEN parameters.val
                             ELSE ParamsBuild([f \in FieldSet |-> None]),
              terrain |-> IF terrain.some THEN terrain.val ELSE FlatTerrain,
              solver_options_keys |-> DictKeys(merged),
              solver_options_values |-> DictValues(merged)]

\* RelaxedRigidContacts.build(parameters, terrain, solver_options, **kwargs):
\* the extra keyword arguments are only logged.
ContactsBuild(parameters, terrain, solver_options, kwargs) ==
    LET default_solver_options ==
            DictZip(DefaultSolverOptionsKeys, DefaultSolverOptionsValues)
        merged == DictUnion(default_solver_options,
                            IF solver_options.some THEN solver_options.val ELSE <<>>)
    IN  IF \E i \in 1..Len(merged) : ~Hashable(merged[i][2])
        THEN [raised |-> "ValueError", built |-> FALSE]
        ELSE [raised |-> "none", built |-> TRUE,
              parameters |-> IF parameters.some THEN parameters.val
                             ELSE ParamsBuild([f \in FieldSet |-> None]),
              terrain |-> IF terrain.some THEN terrain.val ELSE FlatTerrain,
              solver_options_keys |-> DictKeys(merged),
              solver_options_values |-> DictValues(merged)]

\* The solver_options property.
SolverOptions(self) ==
    DictZip(self.solver_options_keys, self.solver_options_values)

(***************************************************************************)
(* Vectors (sequences of numbers) and matrices (sequences of rows).        *)
(***************************************************************************)
\* A function of 1..n as a sequence value (the same function, written out).
Sq(f) == f \o <<>>

RECURSIVE SumSeq(_)
SumSeq(s) == IF Len(s) = 0 THEN Zero ELSE FAdd(Head(s), SumSeq(Tail(s)))

Dot(u, v) == SumSeq(Sq([i \in 1..Len(u) |-> FMul(u[i], v[i])]))

VAdd(u, v) == Sq([i \in 1..Len(u) |-> FAdd(u[i], v[i])])
VSub(u, v) == Sq([i \in 1..Len(u) |-> FSub(u[i], v[i])])
VScale(c, v) == Sq([i \in 1..Len(v) |-> FMul(c, v[i])])
VNeg(v) == Sq([i \in 1..Len(v) |-> FNeg(v[i])])
VZeros(n) == Sq([i \in 1..n |-> Zero])

Column(A, j) == Sq([i \in 1..Len(A) |-> A[i][j]])
Transpose(A) == Sq([j \in 1..Len(A[1]) |-> Column(A, j)])
MatVec(A, x) == Sq([i \in 1..Len(A) |-> Dot(A[i], x)])
MatMul(A, B) ==
    Sq([i \in 1..Len(A) |-> Sq([j \in 1..Len(B[1]) |-> Dot(A[i], Column(B, j))])])
MatAdd(A, B) == Sq([i \in 1..Len(A) |-> VAdd(A[i], B[i])])
MatMask(A, mask) == Sq([i \in 1..Len(A) |-> Sq([j \in 1..Len(A[i]) |-> FMask(A[i][j], mask)])])

\* jnp.diag(v)
Diag(v) == Sq([i \in 1..Len(v) |-> Sq([j \in 1..Len(v) |-> IF i = j THEN v[i] ELSE Zero])])

\* jnp.concatenate / jnp.vstack of a sequence of sequences.
RECURSIVE Concat(_)
Concat(ss) == IF Len(ss) = 0 THEN <<>> ELSE Head(ss) \o Concat(Tail(ss))

\* tree_l2_norm(v) ** 2
NormSq(v) == Dot(v, v)

\* jnp.linalg.lstsq(M, B)[0] for a diagonal M: the minimum-norm solution
\* divides row i of B by M[i][i], and is zero where M[i][i] is zero.
Lstsq(M, B) ==
    Sq([i \in 1..Len(B) |->
        Sq([j \in 1..Len(B[i]) |->
            IF M[i][i] = Zero THEN Zero ELSE FDiv(B[i][j], M[i][i])])])

(***************************************************************************)
(* RelaxedRigidContacts._regularizers                                      *)
(***************************************************************************)
\* The 1e-12 of compute_row.  TLC's integers are 32 bits wide and cannot hold
\* 1e-12 as a fraction; a positive constant stands for it.
REps == Q(1, 4)

\* jnp.power(a, p) for the integer-valued exponents of the model's inputs.
PowNum(a, p) == IF p[2] = 1 THEN FPow(a, p[1]) ELSE NaN

\* imp_aref, the impedance of one component, from imp_x = abs(position) / width:
\* imp_a and imp_b are the two branches, imp_y selects by imp_x < midpoint,
\* the result is clipped to [d_min, d_max] and is d_max where imp_x > 1.
ImpA(imp_x, P) ==
    FMul(FRecip(PowNum(P.midpoint, FSub(P.power, One))), PowNum(imp_x, P.power))

ImpB(imp_x, P) ==
    FSub(One,
         FMul(FRecip(PowNum(FSub(One, P.midpoint), FSub(P.power, One))),
              PowNum(FSub(One, imp_x), P.power)))

\* An imp_y that takes branch a everywhere.
ImpYBranchA(imp_x, P) == ImpA(imp_x, P)

ImpY(imp_x, P) == IF FLt(imp_x, P.midpoint) THEN ImpA(imp_x, P) ELSE ImpB(imp_x, P)

ImpClip(imp_y, P) ==
    FClip(FAdd(P.d_min, FMul(imp_y, FSub(P.d_max, P.d_min))), P.d_min, P.d_max)

ImpOf(imp_x, P) == IF FGt(imp_x, One) THEN P.d_max ELSE ImpClip(ImpY(imp_x, P), P)

\* The impedance of imp_aref, per component of position = (0, 0, penetration).
Impedance(penetration, P) ==
    <<ImpOf(FDiv(Zero, P.width), P),
      ImpOf(FDiv(Zero, P.width), P),
      ImpOf(FDiv(FAbs(penetration), P.width), P)>>

\* K_f of imp_aref.
StiffnessF(P) ==
    IF FLt(P.stiffness, Zero)
    THEN FDiv(FNeg(P.stiffness), FMul(P.d_max, P.d_max))
    ELSE LET t == FMul(FMul(P.d_max, P.time_constant), P.damping_coefficient)
         IN  FDiv(One, FMul(t, t))

\* D_f of imp_aref.
DampingF(P) ==
    IF FLt(P.damping, Zero)
    THEN FDiv(FNeg(P.damping), P.d_max)
    ELSE FDiv(Two, FMul(P.d_max, P.time_constant))

\* a_ref of imp_aref: -(D_f * velocity + K_f * imp * position).
ARef(position, velocity, imp, K_f, D_f) ==
    Sq([i \in 1..3 |->
        FNeg(FAdd(FMul(D_f, velocity[i]), FMul(FMul(K_f, imp[i]), position[i])))])

\* imp_aref(penetration, velocity): imp, a_ref, K_f, D_f.
ImpAref(penetration, velocity, P) ==
    [imp |-> Impedance(penetration, P),
     a_ref |-> ARef(<<Zero, Zero, penetration>>, velocity, Impedance(penetration, P),
                    StiffnessF(P), DampingF(P)),
     K |-> <<StiffnessF(P)>>,
     D |-> <<DampingF(P)>>]

\* jnp.linalg.inv(M_L[link_idx, :3, :3]): the translational block of a link's
\* spatial inertia is mass * identity.
InvInertiaBlock(mass) == Diag(<<FRecip(mass), FRecip(mass), FRecip(mass)>>)

\* The active mask of compute_row.
ActiveMask(penetration) == FLt(penetration, Zero)

\* The diagonal of R of compute_row before the mask:
\*   (2 mu^2 (1 - xi) / (xi + 1e-12)) * (1 + mu^2) @ inv(M_L[link_idx, :3, :3]).T
RCoef(xi, mu2) ==
    FMul(FDiv(FMul(FMul(Two, mu2), FSub(One, xi)), FAdd(xi, REps)), FAdd(One, mu2))

RRow(mass, imp, mu2) ==
    MatVec(Transpose(InvInertiaBlock(mass)),
           <<RCoef(imp[1], mu2), RCoef(imp[2], mu2), RCoef(imp[3], mu2)>>)

\* The four results of compute_row, each multiplied by (penetration < 0).
MaskRow(a_ref, R, K, D, m) ==
    [a_ref |-> Sq([i \in 1..3 |-> FMask(a_ref[i], m)]),
     R |-> Sq([i \in 1..3 |-> FMask(R[i], m)]),
     K |-> Sq([i \in 1..1 |-> FMask(K[i], m)]),
     D |-> Sq([i \in 1..1 |-> FMask(D[i], m)])]

ComputeRowOf(mass, penetration, ia, mu) ==
    MaskRow(ia.a_ref, RRow(mass, ia.imp, FMul(mu, mu)), ia.K, ia.D,
            ActiveMask(penetration))

\* compute_row(link_idx, penetration, velocity): a_ref, R, K, D of one point.
ComputeRow(mass, penetration, velocity, P) ==
    ComputeRowOf(mass, penetration, ImpAref(penetration, velocity, P), P.mu)

\* The rows of the enabled points concatenated; R as a diagonal matrix.
ConcatRows(rows) ==
    [a_ref |-> Concat(Sq([i \in 1..Len(rows) |-> rows[i].a_ref])),
     R |-> Diag(Concat(Sq([i \in 1..Len(rows) |-> rows[i].R]))),
     K |-> Concat(Sq([i \in 1..Len(rows) |-> rows[i].K])),
     D |-> Concat(Sq([i \in 1..Len(rows) |-> rows[i].D]))]

\* _regularizers(model, penetration, velocity, parameters, indices)
Regularizers(masses, penetration, velocity, P) ==
    ConcatRows(Sq([i \in 1..Len(penetration) |->
                     ComputeRow(masses[i], penetration[i], velocity[i], P)]))

(***************************************************************************)
(* RelaxedRigidContacts.compute_contact_forces: the quantities assembled   *)
(* before the solver runs.                                                 *)
(*                                                                         *)
(* kin holds what the kinematics and dynamics calls return for the model   *)
(* and data of the call: per collidable point its position p, its linear   *)
(* velocity v, its 3 x nv Jacobian J and Jacobian derivative Jdot (mixed   *)
(* representation) and its parent link body; the link masses; the mass     *)
(* matrix M, the generalized velocity nu and the free acceleration nudot;  *)
(* the terrain of the model.                                               *)
(***************************************************************************)
\* detect_contact(x, y, z): dot(h, n) with h = (0, 0, z - height(x, y)).
DetectContact(pos, terrain) ==
    Dot(<<Zero, Zero, FSub(pos[3], terrain.height)>>, terrain.normal)

\* Jl_WC and Jdot_WC: the rows of the enabled points, each multiplied by
\* (height < 0), stacked.
MaskedStack(blocks, delta) ==
    Concat(Sq([i \in 1..Len(blocks) |-> MatMask(blocks[i], FLt(delta[i], Zero))]))

\* init_params: K[:, newaxis] * zeros.at[:, 2].set(delta) + D[:, newaxis] * velocity,
\* flattened.
InitParams(K, D, delta, velocity) ==
    Concat(Sq([i \in 1..Len(delta) |->
              VAdd(VScale(K[i], <<Zero, Zero, delta[i]>>), VScale(D[i], velocity[i]))]))

\* G = Jl_WC @ lstsq(M, Jl_WC.T); A = G + R; b = (Jl_WC @ nudot + Jdot_WC @ nu) - a_ref.
Problem(kin, position, velocity, delta, Jl, Jdl, reg) ==
    [delta |-> delta,
     position |-> position,
     velocity |-> velocity,
     Jl |-> Jl,
     Jdl |-> Jdl,
     a_ref |-> reg.a_ref,
     R |-> reg.R,
     K |-> reg.K,
     D |-> reg.D,
     A |-> MatAdd(MatMul(Jl, Lstsq(kin.M, Transpose(Jl))), reg.R),
     b |-> VSub(VAdd(MatVec(Jl, kin.nudot), MatVec(Jdl, kin.nu)), reg.a_ref),
     init_params |-> InitParams(reg.K, reg.D, delta, velocity)]

Gathered(kin, pts, position, velocity, delta, P) ==
    Problem(kin, position, velocity, delta,
            MaskedStack(Sq([i \in 1..Len(pts) |-> pts[i].J]), delta),
            MaskedStack(Sq([i \in 1..Len(pts) |-> pts[i].Jdot]), delta),
            Regularizers(Sq([i \in 1..Len(pts) |-> kin.masses[pts[i].body]]),
                         delta, velocity, P))

\* The per-point quantities of the enabled points, in the order of enabled.
AssemblePoints(kin, pts, P) ==
    Gathered(kin, pts,
             Sq([i \in 1..Len(pts) |-> pts[i].p]),
             Sq([i \in 1..Len(pts) |-> pts[i].v]),
             Sq([i \in 1..Len(pts) |-> DetectContact(pts[i].p, kin.terrain)]),
             P)

\* The quantities of the points in the order the model stores them.
AssembleInModelOrder(kin, enabled, P) ==
    AssemblePoints(kin, Sq([i \in 1..Len(enabled) |-> kin.points[i]]), P)

Assemble(kin, enabled, P) ==
    AssemblePoints(kin, Sq([i \in 1..Len(enabled) |-> kin.points[enabled[i]]]), P)

\* objective(x, A, b) = sum(square(A @ x + b))
Objective(x, A, b) == NormSq(VAdd(MatVec(A, x), b))

\* Its gradient, 2 A^T (A x + b).
ObjectiveGrad(x, A, b) == VScale(Two, MatVec(Transpose(A), VAdd(MatVec(A, x), b)))

(***************************************************************************)
(* optax.lbfgs, the optimizer run_optimization drives: scale_by_lbfgs (the *)
(* two-loop recursion over a memory of memory_size (s, y, 1/(s.y))         *)
(* entries), a sign flip, and a line search.  Its state is a value: count, *)
(* the previous params and gradient, the memory, and the gradient at the   *)
(* current params kept by the line search.                                 *)
(*                                                                         *)
(* optax is a library the program calls; two of its parts are abstracted.  *)
(* The line search is a backtracking search on the sufficient decrease     *)
(* condition (optax runs a zoom search on the strong Wolfe conditions),    *)
(* and the first step, whose memory is empty, is scaled by 1 (optax scales *)
(* it by 1, or by min(1, 1/|g|), by its version).  The iteration count,    *)
(* the gradient kept in the state and the loop around the step, which the  *)
(* program's stopping rule reads, are as in the library.                   *)
(***************************************************************************)
ZeroEntry(n) == [s |-> VZeros(n), y |-> VZeros(n), w |-> Zero]

\* opt.init(params): count 0, gradient zeros, memory zeros.
OptInit(params, memory_size) ==
    [count |-> 0,
     grad |-> VZeros(Len(params)),
     params |-> params,
     updates |-> VZeros(Len(params)),
     mem |-> Sq([i \in 1..memory_size |-> ZeroEntry(Len(params))])]

\* The right products of the two-loop recursion, from the newest entry (the
\* last of mem) to the oldest.  acc holds the vector left and the alphas of
\* the entries done, oldest first.
RightStep(acc, entry, alpha) ==
    [vec |-> VSub(acc.vec, VScale(alpha, entry.y)), alphas |-> <<alpha>> \o acc.alphas]

RECURSIVE RightLoop(_, _, _)
RightLoop(acc, mem, i) ==
    IF i = 0 \/ acc.vec = <<>> THEN acc
    ELSE RightLoop(RightStep(acc, mem[i], FMul(mem[i].w, Dot(mem[i].s, acc.vec))),
                   mem, i - 1)

\* The left products, from the oldest entry to the newest.
RECURSIVE LeftLoop(_, _, _, _)
LeftLoop(vec, mem, alphas, i) ==
    IF i > Len(mem) \/ vec = <<>> THEN vec
    ELSE LeftLoop(VAdd(vec, VScale(FSub(alphas[i], FMul(mem[i].w, Dot(mem[i].y, vec))),
                                   mem[i].s)),
                  mem, alphas, i + 1)

LeftFrom(right, mem, identity_scale) ==
    LeftLoop(VScale(identity_scale, right.vec), mem, right.alphas, 1)

\* _precondition_by_lbfgs: the approximate inverse Hessian applied to g.
Precondition(g, mem, identity_scale) ==
    LeftFrom(RightLoop([vec |-> g, alphas |-> <<>>], mem, Len(mem)), mem, identity_scale)

\* The largest number of halvings of the line search's step size.
MaxHalvings == 6

\* The sufficient decrease condition of the line search at step size alpha
\* along d, from the value f0 and the slope at x.
Armijo(x, d, alpha, A, b, f0, slope) ==
    FLe(Objective(VAdd(x, VScale(alpha, d)), A, b),
        FAdd(f0, FMul(FMul(Q(1, 10000), alpha), slope)))

\* The step size of the line search: the first of 1, 1/2, 1/4, ... that gives
\* a sufficient decrease, and no step after MaxHalvings halvings.
RECURSIVE LineSearchFrom(_, _, _, _, _, _, _, _)
LineSearchFrom(x, d, alpha, A, b, f0, slope, left) ==
    IF Armijo(x, d, alpha, A, b, f0, slope) THEN alpha
    ELSE IF left = 0 THEN Zero
    ELSE LineSearchFrom(x, d, FMul(alpha, Q(1, 2)), A, b, f0, slope, left - 1)

LineSearch(x, d, g, A, b) ==
    LineSearchFrom(x, d, One, A, b, Objective(x, A, b), Dot(g, d), MaxHalvings)

\* The memory after an update: the oldest entry leaves, the newest is
\* (s, y, 1 / (s . y)), with weight 0 where s . y is 0.
Weight(vd) == IF vd = Zero THEN Zero ELSE FRecip(vd)

PushMemory(mem, s, y) ==
    Tail(mem) \o <<[s |-> s, y |-> y, w |-> Weight(Dot(y, s))]>>

\* The scale of the initial inverse Hessian: (s . y) / (y . y) of the newest
\* entry where y . y > 0 and scale_init_precond is set, and 1 otherwise.
IdentityScale(entry, scale_init_precond) ==
    IF scale_init_precond /\ FGt(NormSq(entry.y), Zero)
    THEN FDiv(Dot(entry.y, entry.s), NormSq(entry.y))
    ELSE One

\* The new carry: params moved along d by the step size of the line search.
Moved(x, x1, g, count, mem, A, b) ==
    [params |-> x1,
     state |-> [count |-> count + 1,
                grad |-> ObjectiveGrad(x1, A, b),
                params |-> x,
                updates |-> g,
                mem |-> mem]]

Along(x, d, alpha) == VAdd(x, VScale(alpha, d))

Descend(x, d, g, count, mem, A, b) ==
    Moved(x, Along(x, d, LineSearch(x, d, g, A, b)), g, count, mem, A, b)

Updated(x, g, count, mem, A, b, scale_init_precond) ==
    Descend(x,
            VNeg(Precondition(g, mem, IdentityScale(mem[Len(mem)], scale_init_precond))),
            g, count, mem, A, b)

WithGrad(x, st, g, A, b, scale_init_precond) ==
    Updated(x, g, st.count,
            IF st.count = 0
            THEN PushMemory(st.mem, VZeros(Len(x)), VZeros(Len(x)))
            ELSE PushMemory(st.mem, VSub(x, st.params), VSub(g, st.updates)),
            A, b, scale_init_precond)

\* One step of run_optimization: value_and_grad_fn, opt.update and
\* apply_updates.  Returns the new (params, state).
LbfgsStep(x, st, A, b, scale_init_precond) ==
    WithGrad(x, st, ObjectiveGrad(x, A, b), A, b, scale_init_precond)

\* err >= tol for err = sqrt(err2), decided on the squares.
ErrGeTol(err2, tol) ==
    IF IsNaN(err2) \/ IsNaN(tol) THEN FALSE
    ELSE IF FLe(tol, Zero) \/ IsInf(err2) THEN TRUE
    ELSE IF err2 = Zero \/ IsInf(tol) THEN FALSE
    ELSE FGe(err2, FMul(tol, tol))

\* A criterion without the iter_num == 0 disjunct.
ContinuingCriterionNoFirst(st, maxiter, tol) ==
    /\ FLt(Q(st.count, 1), maxiter)
    /\ ErrGeTol(NormSq(st.grad), tol)

\* A criterion that does not read the gradient.
ContinuingCriterionNoTol(st, maxiter, tol) ==
    \/ st.count = 0
    \/ FLt(Q(st.count, 1), maxiter)

\* A criterion that tests iter_num <= maxiter.
ContinuingCriterionOffByOne(st, maxiter, tol) ==
    \/ st.count = 0
    \/ /\ FLe(Q(st.count, 1), maxiter)
       /\ ErrGeTol(NormSq(st.grad), tol)

\* continuing_criterion(carry):
\*   (iter_num == 0) | ((iter_num < maxiter) & (err >= tol))
\* with err the l2 norm of the gradient kept in the state.
ContinuingCriterion(st, maxiter, tol) ==
    \/ st.count = 0
    \/ /\ FLt(Q(st.count, 1), maxiter)
       /\ ErrGeTol(NormSq(st.grad), tol)

\* other_representation_to_inertial(array, transform, Mixed, is_force=True):
\* the wrench (f, 0) applied at the origin p of the mixed frame is (f, p x f)
\* in the world frame; it is the product with the 6 x 6 force transform.
MixedToInertialForce(array, pos) ==
    LET X == << <<One, Zero, Zero, Zero, Zero, Zero>>,
                <<Zero, One, Zero, Zero, Zero, Zero>>,
                <<Zero, Zero, One, Zero, Zero, Zero>>,
                <<Zero, FNeg(pos[3]), pos[2], One, Zero, Zero>>,
                <<pos[3], Zero, FNeg(pos[1]), Zero, One, Zero>>,
                <<FNeg(pos[2]), pos[1], Zero, Zero, Zero, One>> >>
    IN  MatVec(X, array)

\* The forces without their moments.
ProjectForcesNoMoment(solution, position) ==
    Sq([i \in 1..Len(position) |->
        <<solution[3 * i - 2], solution[3 * i - 1], solution[3 * i], Zero, Zero, Zero>>])

\* W_f_C: the solution reshaped to rows of 3 and lifted row by row.
ProjectForces(solution, position) ==
    Sq([i \in 1..Len(position) |->
        MixedToInertialForce(
            <<solution[3 * i - 2], solution[3 * i - 1], solution[3 * i], Zero, Zero, Zero>>,
            position[i])])

(***************************************************************************)
(* The inputs of a run.  mode names the sets the run draws them from.      *)
(***************************************************************************)
\* The largest number of fields a caller passes to RelaxedRigidContactsParams.build.
MaxPassed == 2

\* The largest number of entries of a caller's solver_options.
MaxOpts == 2

\* The largest maxiter of the runs of the solver.
MaxIter == 2

\* The number of collidable points of the model.
NPts == 2

NoKw == [f \in FieldSet |-> None]

\* The values a caller passes for a field (power: integer-valued).
ArgValues(f) ==
    {PyInt(-1), PyInt(0), PyInt(2)}
    \cup (IF f = "power" THEN {} ELSE {PyFloat(1, 2)})

\* The keyword arguments that pass the fields of F, each with a value of its own.
KwPassing(F) ==
    {[f \in FieldSet |-> IF f \in F THEN g[f] ELSE None] :
        g \in {h \in [F -> UNION {ArgValues(f) : f \in F}] :
                  \A f \in F : h[f] \in ArgValues(f)}}

KwUpTo(n) ==
    UNION {KwPassing(F) : F \in {G \in SUBSET FieldSet : Cardinality(G) <= n}}

With(kw, f, v) == [kw EXCEPT ![f] = v]

\* Parameters with small values for the runs of the solver.
SolveKwBase ==
    [NoKw EXCEPT !["time_constant"] = PyInt(1),
                 !["damping_coefficient"] = PyInt(1),
                 !["d_min"] = PyFloat(3, 4),
                 !["d_max"] = PyInt(1),
                 !["width"] = PyInt(1),
                 !["midpoint"] = PyFloat(1, 2),
                 !["power"] = PyInt(1),
                 !["mu"] = PyInt(1)]

SolveKwSet ==
    {SolveKwBase,
     With(SolveKwBase, "stiffness", PyInt(-2)),
     With(SolveKwBase, "damping", PyInt(-1)),
     With(SolveKwBase, "time_constant", PyInt(0))}

KwSet(m) ==
    CASE m = "params" -> KwUpTo(MaxPassed)
      [] m = "build" -> {NoKw, With(NoKw, "width", PyInt(-1)), With(NoKw, "mu", PyInt(2))}
      [] m = "solve" -> SolveKwSet
      [] m = "call" -> {SolveKwBase}

\* The second instance of a comparison.
OtherKwSet(m) ==
    {NoKw, With(NoKw, "stiffness", PyInt(-2)), With(NoKw, "stiffness", PyInt(-1)),
     With(NoKw, "damping", PyInt(-1))}

\* The keys and values of a caller's solver_options; "maxls" is not a
\* keyword of optax.lbfgs.
OptKeys == {"tol", "maxiter", "memory_size", "scale_init_precond", "maxls"}

PyBool(t) == <<"bool", IF t THEN 1 ELSE 0, 1>>

OptValues(k) ==
    CASE k = "tol" -> {PyInt(0), PyFloat(1, 2), PyList}
      [] k = "maxiter" -> {PyInt(0), PyInt(2), PyList}
      [] k = "memory_size" -> {PyInt(1), PyInt(2), PyList}
      [] k = "scale_init_precond" -> {PyBool(FALSE), PyList}
      [] k = "maxls" -> {PyInt(5), PyList}

\* The dicts of at most n entries, in every insertion order.
RECURSIVE DictsUpTo(_)
DictsUpTo(n) ==
    IF n = 0 THEN {<<>>}
    ELSE LET shorter == DictsUpTo(n - 1)
         IN  shorter \cup
             {Append(d, <<k, v>>) :
                 d \in {e \in shorter : Len(e) = n - 1},
                 k \in OptKeys, v \in UNION {OptValues(j) : j \in OptKeys}}

WellFormedDict(d) ==
    /\ \A i \in 1..Len(d) : d[i][2] \in OptValues(d[i][1])
    /\ \A i, j \in 1..Len(d) : i # j => d[i][1] # d[j][1]

\* The solver options of the runs of the solver: maxiter up to MaxIter.
SolveOpts ==
    {<< <<"maxiter", PyInt(m)>>, <<"tol", t>>, <<"memory_size", PyInt(1 + (m % 2))>> >> :
        m \in 0..MaxIter, t \in {PyInt(0), PyFloat(1, 2)}}

\* The solver options of the calls made twice: a tol of NaN among them.
CallOpts ==
    {<< <<"maxiter", PyInt(m)>>, <<"tol", t>> >> :
        m \in {0, 1, MaxIter}, t \in {PyInt(0), PyFloat(1, 2), PyFloat(0, 0)}}

OptsSet(m) ==
    CASE m = "params" -> {Nothing}
      [] m = "build" ->
            {Nothing} \cup {Some(d) : d \in {e \in DictsUpTo(MaxOpts) : WellFormedDict(e)}}
      [] m = "solve" -> {Some(d) : d \in SolveOpts}
      [] m = "call" -> {Some(d) : d \in CallOpts}

KwargsSet(m) == IF m = "build" THEN {<<>>, << <<"verbose", PyInt(1)>> >>} ELSE {<<>>}

UseParamsSet(m) == IF m = "build" THEN BOOLEAN ELSE {TRUE}

\* Collidable points.  Each is on a link of its own that slides along z, so
\* the model has one degree of freedom per point: row z of the point's
\* Jacobian selects the point's degree of freedom, and M is diagonal.
V3(a, b, c) == <<Q(a, 1), Q(b, 1), Q(c, 1)>>

\* In contact and moving, above the ground and moving, touching the ground.
PointKinds ==
    {[p |-> V3(1, 0, -1), v |-> V3(1, 0, -1), mass |-> Two],
     [p |-> V3(0, 1, 1), v |-> V3(0, 1, -1), mass |-> Two],
     [p |-> V3(1, 1, 0), v |-> V3(0, 0, 0), mass |-> Two]}

\* The 3 x n linear Jacobian of point i of n.
PointJacobian(i, n) ==
    Sq([r \in 1..3 |-> Sq([c \in 1..n |-> IF r = 3 /\ c = i THEN One ELSE Zero])])

KinOf(kinds) ==
    LET n == Len(kinds)
    IN  [points |-> Sq([i \in 1..n |->
                        [p |-> kinds[i].p,
                         v |-> kinds[i].v,
                         J |-> PointJacobian(i, n),
                         Jdot |-> Sq([r \in 1..3 |-> VZeros(n)]),
                         body |-> i]]),
         masses |-> Sq([i \in 1..n |-> kinds[i].mass]),
         M |-> Diag(Sq([i \in 1..n |-> kinds[i].mass])),
         nu |-> Sq([i \in 1..n |-> kinds[i].v[3]]),
         nudot |-> Sq([i \in 1..n |-> Q(-1, 1)]),
         terrain |-> FlatTerrain]

\* One point touching the ground, at rest.
KinTouch == KinOf(<<[p |-> V3(1, 1, 0), v |-> V3(0, 0, 0), mass |-> Two]>>)

\* A terrain whose height query yields NaN.
UndefinedTerrain == [height |-> NaN, normal |-> <<Zero, Zero, One>>]

\* Moving points over the terrain without a height.
KinUndefined ==
    [KinOf(Sq([i \in 1..NPts |-> [p |-> V3(1, 0, -1), v |-> V3(1, 0, -1), mass |-> Two]]))
        EXCEPT !.terrain = UndefinedTerrain]

KinSet(m) ==
    CASE m = "solve" ->
            {KinOf(Sq(pts)) : pts \in [1..NPts -> PointKinds]} \cup {KinUndefined}
      [] m = "call" ->
            {KinOf(Sq([i \in 1..NPts |-> IF i = 1 THEN a ELSE b])) : a, b \in PointKinds}
      [] OTHER -> {KinTouch}

\* indices_of_enabled_collidable_points: all the points, in both orders.
EnabledSet(k) ==
    LET n == Len(k.points)
    IN  {Sq([i \in 1..n |-> i]), Sq([i \in 1..n |-> n + 1 - i])}

(***************************************************************************)
(* The state of a run.                                                     *)
(***************************************************************************)
VARIABLES
    mode,        \* the input sets of the run
    pc,          \* where the run is
    kw,          \* the arguments given to RelaxedRigidContactsParams.build
    params,      \* the RelaxedRigidContactsParams built
    other,       \* a second RelaxedRigidContactsParams, compared with params
    validResult, \* what params.valid() returned: "unset", "true", "false"
    eqResult,    \* what params == other returned: "unset", "true", "false"
    buildArgs,   \* the arguments given to RelaxedRigidContacts.build
    contact,     \* what RelaxedRigidContacts.build returned or raised
    kin,         \* the kinematics and dynamics of the call
    enabled,     \* indices_of_enabled_collidable_points
    asm,         \* delta, Jl, a_ref, R, K, D, A, b, init_params of the call
    tol,         \* the tol popped from the solver options
    maxiter,     \* the maxiter popped from the solver options
    lbfgsOpts,   \* the options forwarded to optax.lbfgs
    x,           \* the params of the optimization carry
    opt,         \* the optimizer state of the carry
    W_f_C,       \* the forces returned
    raised,      \* the exception raised, or "none"
    call,        \* link_forces, joint_force_references and the data's velocity
                 \* representation as the caller gave them, and the references built
    dataRepr,    \* the velocity representations of the caller's data and of the
                 \* references after the call
    aux,         \* the second value returned
    prev,        \* the inputs and outputs of the call before this one
    frame,       \* the last call of a function of jaxsim.api.frame: its
                 \* arguments and what it returned or raised
    imp          \* the last call of imp_aref: its arguments and what it returned

vars ==
    <<mode, pc, kw, params, other, validResult, eqResult, buildArgs, contact,
      kin, enabled, asm, tol, maxiter, lbfgsOpts, x, opt, W_f_C, raised,
      call, dataRepr, aux, prev, frame, imp>>

\* The arguments of a call besides the kinematics: link_forces and
\* joint_force_references by their shapes (Nothing: not passed), and the
\* velocity representation of the data.
NoCall ==
    [link_forces |-> Nothing, joint_force_references |-> Nothing,
     velocity_representation |-> "inertial"]


BoolStr(t) == IF t THEN "true" ELSE "false"

InitMode(m) ==
    /\ mode = m
    /\ pc = "start"
    /\ kw = NoKw
    /\ params = ParamsBuild(NoKw)
    /\ other = ParamsBuild(NoKw)
    /\ validResult = "unset"
    /\ eqResult = "unset"
    /\ buildArgs = [parameters |-> Nothing, solver_options |-> Nothing, kwargs |-> <<>>]
    /\ contact = NoInstance
    /\ kin = KinTouch
    /\ enabled = <<>>
    /\ asm = [delta |-> <<>>]
    /\ tol = None
    /\ maxiter = None
    /\ lbfgsOpts = <<>>
    /\ x = <<>>
    /\ opt = OptInit(<<>>, 0)
    /\ W_f_C = <<>>
    /\ raised = "none"
    /\ call = [args |-> NoCall,
               references |-> [link_forces |-> <<>>, joint_force_references |-> <<>>,
                               raised |-> "none"]]
    /\ dataRepr = [data |-> "inertial", references |-> "inertial"]
    /\ aux = None
    /\ prev = [called |-> FALSE]
    /\ frame = [op |-> "none"]
    /\ imp = [called |-> FALSE]

\* RelaxedRigidContactsParams.build(**kw)
ParamsBuildCall ==
    /\ pc = "start"
    /\ \E k \in KwSet(mode) :
          /\ kw' = k
          /\ params' = ParamsBuild(k)
    /\ pc' = "params"
    /\ UNCHANGED <<mode, other, validResult, eqResult, buildArgs, contact, kin,
                   enabled, asm, tol, maxiter, lbfgsOpts, x, opt, W_f_C, raised,
                   call, dataRepr, aux, prev, frame, imp>>

\* params.valid()
ValidCall ==
    /\ pc = "params"
    /\ validResult' = BoolStr(ParamsValid(params))
    /\ pc' = "validated"
    /\ UNCHANGED <<mode, kw, params, other, eqResult, buildArgs, contact, kin,
                   enabled, asm, tol, maxiter, lbfgsOpts, x, opt, W_f_C, raised,
                   call, dataRepr, aux, prev, frame, imp>>

\* params == RelaxedRigidContactsParams.build(**k2)
EqCall ==
    /\ pc = "params"
    /\ \E k2 \in OtherKwSet(mode) :
          /\ other' = ParamsBuild(k2)
          /\ eqResult' = BoolStr(ParamsEq(params, ParamsBuild(k2)))
    /\ pc' = "compared"
    /\ UNCHANGED <<mode, kw, params, validResult, buildArgs, contact, kin,
                   enabled, asm, tol, maxiter, lbfgsOpts, x, opt, W_f_C, raised,
                   call, dataRepr, aux, prev, frame, imp>>

\* RelaxedRigidContacts.build(parameters, terrain, solver_options, **kwargs)
ContactsBuildCall ==
    /\ pc = "params"
    /\ \E use \in UseParamsSet(mode), so \in OptsSet(mode), extra \in KwargsSet(mode) :
          LET parameters == IF use THEN Some(params) ELSE Nothing
              r == ContactsBuild(parameters, Nothing, so, extra)
          IN  /\ buildArgs' = [parameters |-> parameters, solver_options |-> so,
                               kwargs |-> extra]
              /\ contact' = r
              /\ raised' = r.raised
              /\ pc' = IF r.built THEN "built" ELSE "build_raised"
    /\ UNCHANGED <<mode, kw, params, other, validResult, eqResult, kin, enabled,
                   asm, tol, maxiter, lbfgsOpts, x, opt, W_f_C,
                   call, dataRepr, aux, prev, frame, imp>>

\* The keywords of optax.lbfgs.
LbfgsKeywords == {"learning_rate", "memory_size", "scale_init_precond", "linesearch"}

CallArgSet(m, k) ==
    LET nl == Len(k.masses)
        nj == Len(k.nu)
        Args(lf, jf, repr) ==
            [link_forces |-> lf, joint_force_references |-> jf,
             velocity_representation |-> repr]
    IN  IF m = "call"
        THEN {NoCall,
              Args(Some(<<nl, 6>>), Some(<<nj>>), "body"),
              Args(Some(<<1, nl, 6>>), Some(<<1, nj>>), "mixed"),
              Args(Some(<<nl + 1, 6>>), Nothing, "mixed"),
              Args(Some(<<nl, 3>>), Nothing, "inertial"),
              Args(Nothing, Some(<<nj + 1>>), "body"),
              Args(Some(<<nl, 6>>), Some(<<nj, 2>>), "inertial")}
        ELSE {NoCall}

\* The shapes handed on as the caller gave them.
ReferencesArgsAsGiven(k, c) ==
    [link_forces |->
        IF c.link_forces.some THEN c.link_forces.val ELSE <<Len(k.masses), 6>>,
     joint_force_references |->
        IF c.joint_force_references.some THEN c.joint_force_references.val
        ELSE <<Len(k.nu)>>]

\* The shapes of link_forces and joint_force_references as
\* compute_contact_forces hands them to JaxSimModelReferences.build: the
\* caller's array with its dimensions of size one dropped (squeeze) and then
\* padded in front to two dimensions, or to one, and zeros of the model's
\* sizes where the caller passed None.
ReferencesArgs(k, c) ==
    LET IsNotOne(d) == d # 1
        squeeze(shape) == SelectSeq(shape, IsNotOne)
        atleast_2d(shape) ==
            CASE Len(shape) = 0 -> <<1, 1>>
              [] Len(shape) = 1 -> <<1>> \o shape
              [] OTHER -> shape
        atleast_1d(shape) == IF Len(shape) = 0 THEN <<1>> ELSE shape
    IN  [link_forces |->
            atleast_2d(IF c.link_forces.some THEN squeeze(c.link_forces.val)
                       ELSE <<Len(k.masses), 6>>),
         joint_force_references |->
            atleast_1d(IF c.joint_force_references.some
                       THEN squeeze(c.joint_force_references.val)
                       ELSE <<Len(k.nu)>>)]

\* JaxSimModelReferences.build: it raises for a link_forces that is not
\* (number of links, 6) and for a joint_force_references that is not
\* (number of joints,).
ReferencesBuild(k, a) ==
    [link_forces |-> a.link_forces,
     joint_force_references |-> a.joint_force_references,
     raised |-> IF /\ a.link_forces = <<Len(k.masses), 6>>
                   /\ a.joint_force_references = <<Len(k.nu)>>
                THEN "none" ELSE "ValueError"]

\* The velocity representation of an object after the block
\*   with obj.switch_velocity_representation(target): ...
\* the context manager sets target on entry and the representation it found
\* on exit.
SwitchVelocityRepresentation(repr, target) == repr

\* An instance whose stored options lose tol and maxiter.
SelfAfterCallPopped(self) ==
    [self EXCEPT !.solver_options_keys = DictKeys(DictPop(DictPop(SolverOptions(self), "tol"), "maxiter")),
                 !.solver_options_values = DictValues(DictPop(DictPop(SolverOptions(self), "tol"), "maxiter"))]

\* self after compute_contact_forces: solver_options is a property that
\* builds a dict from the stored tuples on each access, so that the two pops
\* change that dict and leave self as it was.
SelfAfterCall(self) == self

\* A carry that keeps the optimizer state an earlier call left, where its
\* size fits.
InitCarryKeepsState(init_params, memory_size, stale) ==
    IF Len(stale.grad) = Len(init_params) /\ Len(init_params) > 0 /\ stale.count > 0
    THEN [stale EXCEPT !.count = 1]
    ELSE OptInit(init_params, memory_size)

\* The optimizer state of init_carry: opt.init(params=init_params).  stale,
\* the state an earlier call ended with, is not read.
InitCarry(init_params, memory_size, stale) == OptInit(init_params, memory_size)

\* compute_contact_forces up to the while loop of run_optimization: the
\* references, the quantities of the problem, the warm start, the solver
\* options split into the stopping rule's and the optimizer's, and the
\* initial carry.  The parameters are those of the data, which carries the
\* contact model's.  A second call on an instance is on the same model and
\* data, with the enabled points in any order.
ComputeStart ==
    /\ pc = "built"
    /\ \E k \in (IF prev.called THEN {prev.kin} ELSE KinSet(mode)) :
          \E en \in EnabledSet(k) :
             \E c \in (IF prev.called THEN {prev.call} ELSE CallArgSet(mode, k)) :
                /\ kin' = k
                /\ enabled' = en
                /\ call' = [args |-> c, references |-> ReferencesBuild(k, ReferencesArgs(k, c))]
    /\ contact' = SelfAfterCall(contact)
    /\ IF call'.references.raised # "none"
       THEN /\ raised' = call'.references.raised
            /\ pc' = "compute_raised"
            /\ dataRepr' = [data |-> call'.args.velocity_representation,
                             references |-> call'.args.velocity_representation]
            /\ UNCHANGED <<asm, tol, maxiter, lbfgsOpts, x, opt>>
       ELSE /\ dataRepr' =
                 [data |-> SwitchVelocityRepresentation(
                               call'.args.velocity_representation, "mixed"),
                  references |-> SwitchVelocityRepresentation(
                               call'.args.velocity_representation, "mixed")]
            /\ asm' = Assemble(kin', enabled', contact.parameters)
            /\ tol' = DictGet(SolverOptions(contact), "tol")
            /\ maxiter' = DictGet(SolverOptions(contact), "maxiter")
            /\ lbfgsOpts' = DictPop(DictPop(SolverOptions(contact), "tol"), "maxiter")
            /\ IF \A i \in 1..Len(lbfgsOpts') : lbfgsOpts'[i][1] \in LbfgsKeywords
               THEN /\ x' = asm'.init_params
                    /\ opt' = InitCarry(asm'.init_params,
                                        DictGet(lbfgsOpts', "memory_size")[2], opt)
                    /\ raised' = "none"
                    /\ pc' = "loop"
               ELSE /\ raised' = "TypeError"
                    /\ pc' = "compute_raised"
                    /\ UNCHANGED <<x, opt>>
    /\ UNCHANGED <<mode, kw, params, other, validResult, eqResult, buildArgs,
                   W_f_C, aux, prev, frame, imp>>

\* The caller keeps what the call returned and calls again.
CallAgain ==
    /\ pc = "done"
    /\ ~prev.called
    /\ prev' = [called |-> TRUE, kin |-> kin, enabled |-> enabled, call |-> call.args,
                tol |-> tol, maxiter |-> maxiter, W_f_C |-> W_f_C, aux |-> aux]
    /\ pc' = "built"
    /\ UNCHANGED <<mode, kw, params, other, validResult, eqResult, buildArgs, contact,
                   kin, enabled, asm, tol, maxiter, lbfgsOpts, x, opt, W_f_C, raised,
                   call, dataRepr, aux, frame, imp>>

ScaleInitPrecond(opts) ==
    IF HasKey(opts, "scale_init_precond") THEN DictGet(opts, "scale_init_precond")[2] # 0
    ELSE TRUE

\* One iteration of the while loop: the criterion holds and step runs.
Step ==
    /\ pc = "loop"
    /\ ContinuingCriterion(opt, AsFloatArray(maxiter), AsFloatArray(tol))
    /\ LET r == LbfgsStep(x, opt, asm.A, asm.b, ScaleInitPrecond(lbfgsOpts))
       IN  /\ x' = r.params
           /\ opt' = r.state
    /\ UNCHANGED <<mode, pc, kw, params, other, validResult, eqResult, buildArgs,
                   contact, kin, enabled, asm, tol, maxiter, lbfgsOpts, W_f_C, raised,
                   call, dataRepr, aux, prev, frame, imp>>

\* The criterion fails: the loop ends, the solution is lifted and returned.
Finish ==
    /\ pc = "loop"
    /\ ~ContinuingCriterion(opt, AsFloatArray(maxiter), AsFloatArray(tol))
    /\ W_f_C' = ProjectForces(x, asm.position)
    /\ aux' = <<>>
    /\ pc' = "done"
    /\ UNCHANGED <<mode, kw, params, other, validResult, eqResult, buildArgs,
                   contact, kin, enabled, asm, tol, maxiter, lbfgsOpts, x, opt, raised,
                   call, dataRepr, prev, frame, imp>>

Next ==
    \/ ParamsBuildCall
    \/ ValidCall
    \/ EqCall
    \/ ContactsBuildCall
    \/ ComputeStart
    \/ Step
    \/ Finish

\* The runs of the solver.
Init == InitMode("solve")
Spec == Init /\ [][Next]_vars

\* The guards of Step and of Finish.  Step adds one to opt.count and Finish
\* moves pc, so that each changes vars wherever its guard holds: StepEnabled
\* is ENABLED <<Step>>_vars and FinishEnabled is ENABLED <<Finish>>_vars.
StepEnabled ==
    /\ pc = "loop"
    /\ ContinuingCriterion(opt, AsFloatArray(maxiter), AsFloatArray(tol))

FinishEnabled ==
    /\ pc = "loop"
    /\ ~ContinuingCriterion(opt, AsFloatArray(maxiter), AsFloatArray(tol))

\* The steps of Next that are Step steps, and those that are Finish steps,
\* by their effect on pc and opt.count: no other action leaves pc = "loop".
StepTaken == pc = "loop" /\ pc' = "loop" /\ opt'.count = opt.count + 1
FinishTaken == pc = "loop" /\ pc' = "done"

\* Weak fairness of Step and of Finish, that is WF_vars(Step) and
\* WF_vars(Finish), with the guards written for the ENABLED formulas and the
\* steps told by their effect.
StepFair == ([]<>(~StepEnabled)) \/ ([]<><<StepTaken>>_vars)
FinishFair == ([]<>(~FinishEnabled)) \/ ([]<><<FinishTaken>>_vars)

\* The same runs; the while loop, once entered, runs to its end: jax's
\* while_loop runs the body while the criterion holds and returns when it
\* fails.
FairSpec == Spec /\ StepFair /\ FinishFair

\* The runs that call compute_contact_forces twice on one instance, with
\* every kind of link_forces and joint_force_references.
CallNext == Next \/ CallAgain
CallSpec == InitMode("call") /\ [][CallNext]_vars

(***************************************************************************)
(* jaxsim.api.frame.  A model is its number of links, its degrees of       *)
(* freedom and the frames of its description, each with a name and the     *)
(* index of its parent link; the index of the k-th frame (from 0) is       *)
(* k + number_of_links.                                                    *)
(***************************************************************************)
\* The largest number of frames of a model.
MaxFrames == 2

FrameNames == {"frame_a", "frame_b", "frame_c"}

\* The models: one or two links, frames with names of their own.
FrameModels ==
    {[number_of_links |-> nl,
      dofs |-> nl - 1,
      frames |-> Sq([k \in 1..Len(names) |-> [name |-> names[k], parent |-> k % nl]])] :
        nl \in 1..2,
        names \in {n \in UNION {[1..l -> FrameNames] : l \in 0..MaxFrames} :
                      \A i, j \in 1..Len(n) : i # j => n[i] # n[j]}}

\* The indices a caller passes: those of the frames, those before them that
\* a Python list takes as counted from its end, and some of no frame.
FrameIndices(model) ==
    (model.number_of_links - Len(model.frames) - 1)
        ..(model.number_of_links + Len(model.frames))

\* The names bound in the module: its imports (lines 1-12) and its functions.
FrameModuleNames ==
    {"functools", "Sequence", "jax", "jnp", "jaxlie", "np", "js", "jtp", "VelRepr",
     "name_to_idx", "idx_to_name", "names_to_idxs", "idxs_to_names", "transform",
     "jacobian"}

\* A name_to_idx that counts the frames from 0.
name_to_idx_no_links(model, frame_name) ==
    IF \E k \in 1..Len(model.frames) : model.frames[k].name = frame_name
    THEN (CHOOSE k \in 1..Len(model.frames) : model.frames[k].name = frame_name) - 1
    ELSE -1

\* name_to_idx: the places of the name among the frame names (argwhere, from
\* 0) plus number_of_links, squeezed to a scalar where there is one place,
\* and -1 for a name that is not among them.
name_to_idx(model, frame_name) ==
    LET IsPlace(i) == i >= 0
        idx_in_list ==
            SelectSeq([k \in 1..Len(model.frames) |->
                          IF model.frames[k].name = frame_name THEN k - 1 ELSE -1],
                      IsPlace)
    IN  IF \E k \in 1..Len(model.frames) : model.frames[k].name = frame_name
        THEN IF Len(idx_in_list) = 1
             THEN idx_in_list[1] + model.number_of_links
             ELSE [k \in 1..Len(idx_in_list) |-> idx_in_list[k] + model.number_of_links]
        ELSE -1

\* frames[i] of a Python list: from the end for a negative i, IndexError
\* outside -len..len-1.
ListGet(frames, i) ==
    CASE 0 <= i /\ i < Len(frames) -> [raised |-> "none", val |-> frames[i + 1]]
      [] -Len(frames) <= i /\ i < 0 ->
            [raised |-> "none", val |-> frames[Len(frames) + i + 1]]
      [] OTHER -> [raised |-> "IndexError", val |-> [name |-> "", parent |-> 0]]

\* idx_to_name: frames[frame_index - number_of_links].name
idx_to_name(model, frame_index) ==
    LET f == ListGet(model.frames, frame_index - model.number_of_links)
    IN  [raised |-> f.raised, val |-> f.val.name]

\* names_to_idxs: name_to_idx of each name, in order.
names_to_idxs(model, frame_names) ==
    [k \in 1..Len(frame_names) |-> name_to_idx(model, frame_names[k])]

\* idxs_to_names: idx_to_name of each index, in order; the first that raises
\* ends the call.
idxs_to_names(model, frame_indices) ==
    LET each == [k \in 1..Len(frame_indices) |-> idx_to_name(model, frame_indices[k])]
    IN  IF \E k \in 1..Len(each) : each[k].raised # "none"
        THEN [raised |-> "IndexError", val |-> <<>>]
        ELSE [raised |-> "none", val |-> [k \in 1..Len(each) |-> each[k].val]]

\* The names the branch of jacobian for a representation reads.
NamesRead(output_vel_repr) ==
    CASE output_vel_repr = "inertial" -> {"VelRepr", "js", "jaxlie"}
      [] output_vel_repr = "body" -> {"VelRepr", "js", "transform", "jaxsim", "jaxlie"}
      [] output_vel_repr = "mixed" ->
            {"VelRepr", "js", "transform", "jaxsim", "jaxlie", "jnp"}
      [] OTHER -> {"VelRepr"}

\* jacobian: the representation asked for, or the data's where it is None;
\* the parent link of the frame; the branch of the representation, which
\* raises NameError at a name the module does not bind, and ValueError for a
\* value that is none of the three.  The Jacobian is given by its shape and
\* its representation.
jacobian(model, data, frame_index, output_vel_repr) ==
    LET repr == IF output_vel_repr # "None" THEN output_vel_repr
                ELSE data.velocity_representation
        f == ListGet(model.frames, frame_index - model.number_of_links)
    IN  CASE f.raised # "none" -> [raised |-> f.raised, shape |-> <<>>, repr |-> repr]
          [] f.raised = "none" /\ ~(NamesRead(repr) \subseteq FrameModuleNames) ->
                [raised |-> "NameError", shape |-> <<>>, repr |-> repr]
          [] f.raised = "none" /\ NamesRead(repr) \subseteq FrameModuleNames
                /\ repr \notin {"inertial", "body", "mixed"} ->
                [raised |-> "ValueError", shape |-> <<>>, repr |-> repr]
          [] OTHER -> [raised |-> "none", shape |-> <<6, 6 + model.dofs>>, repr |-> repr]

\* A call of name_to_idx, with a name of the set or one of no frame.
NameToIdxCall ==
    /\ frame.op = "none"
    /\ \E m \in FrameModels : \E n \in FrameNames \cup {"no_frame"} :
          frame' = [op |-> "name_to_idx", model |-> m, frame_name |-> n,
                    result |-> name_to_idx(m, n)]
    /\ UNCHANGED <<mode, pc, kw, params, other, validResult, eqResult, buildArgs,
                   contact, kin, enabled, asm, tol, maxiter, lbfgsOpts, x, opt, W_f_C,
                   raised, call, dataRepr, aux, prev, imp>>

\* A call of idx_to_name.
IdxToNameCall ==
    /\ frame.op = "none"
    /\ \E m \in FrameModels : \E i \in FrameIndices(m) :
          frame' = [op |-> "idx_to_name", model |-> m, frame_index |-> i,
                    result |-> idx_to_name(m, i)]
    /\ UNCHANGED <<mode, pc, kw, params, other, validResult, eqResult, buildArgs,
                   contact, kin, enabled, asm, tol, maxiter, lbfgsOpts, x, opt, W_f_C,
                   raised, call, dataRepr, aux, prev, imp>>

\* A call of names_to_idxs with up to two names.
NamesToIdxsCall ==
    /\ frame.op = "none"
    /\ \E m \in FrameModels :
          \E ns \in UNION {[1..l -> FrameNames \cup {"no_frame"}] : l \in 0..2} :
             frame' = [op |-> "names_to_idxs", model |-> m, frame_names |-> ns,
                       result |-> names_to_idxs(m, ns)]
    /\ UNCHANGED <<mode, pc, kw, params, other, validResult, eqResult, buildArgs,
                   contact, kin, enabled, asm, tol, maxiter, lbfgsOpts, x, opt, W_f_C,
                   raised, call, dataRepr, aux, prev, imp>>

\* A call of idxs_to_names with up to two indices.
IdxsToNamesCall ==
    /\ frame.op = "none"
    /\ \E m \in FrameModels :
          \E is \in UNION {[1..l -> FrameIndices(m)] : l \in 0..2} :
             frame' = [op |-> "idxs_to_names", model |-> m, frame_indices |-> is,
                       result |-> idxs_to_names(m, is)]
    /\ UNCHANGED <<mode, pc, kw, params, other, validResult, eqResult, buildArgs,
                   contact, kin, enabled, asm, tol, maxiter, lbfgsOpts, x, opt, W_f_C,
                   raised, call, dataRepr, aux, prev, imp>>

\* A call of jacobian for a frame of the model, with output_vel_repr None,
\* one of the three representations, or another value.
JacobianCall ==
    /\ frame.op = "none"
    /\ \E m \in FrameModels :
          \E k \in 1..Len(m.frames) :
             \E d \in {"inertial", "body", "mixed"} :
                \E o \in {"None", "inertial", "body", "mixed", "other"} :
                   frame' = [op |-> "jacobian", model |-> m,
                             data |-> [velocity_representation |-> d],
                             frame_index |-> k - 1 + m.number_of_links,
                             output_vel_repr |-> o,
                             result |-> jacobian(m, [velocity_representation |-> d],
                                                 k - 1 + m.number_of_links, o)]
    /\ UNCHANGED <<mode, pc, kw, params, other, validResult, eqResult, buildArgs,
                   contact, kin, enabled, asm, tol, maxiter, lbfgsOpts, x, opt, W_f_C,
                   raised, call, dataRepr, aux, prev, imp>>

FrameNext ==
    \/ NameToIdxCall
    \/ IdxToNameCall
    \/ NamesToIdxsCall
    \/ IdxsToNamesCall
    \/ JacobianCall

\* The runs that call the functions of jaxsim.api.frame.
FrameSpec == InitMode("frame") /\ [][FrameNext]_vars

\* A call of imp_aref, the function of _regularizers that compute_row calls
\* for each point, on parameters in the ranges of the data model (integer
\* powers 1 to 3) and on penetrations from far below to far above the ground.
ImpArefCall ==
    /\ ~imp.called
    /\ \E dd \in {<<Zero, One>>, <<Q(3, 4), One>>, <<Q(1, 4), Q(1, 2)>>, <<Q(1, 2), Q(1, 2)>>} :
          \E w \in {Q(1, 2), One, Two} :
             \E mid \in {Q(1, 4), Q(1, 2), Q(3, 4)} :
                \E pw \in 1..3 :
                   \E d \in {Q(-3, 1), Q(-1, 1), Q(-1, 2), Q(-1, 4), Q(-1, 8), Zero,
                             Q(1, 4), Q(1, 1), Q(3, 1), Inf, FNeg(Inf)} :
                      LET P == [ParamsBuild(SolveKwBase) EXCEPT
                                   !.d_min = dd[1], !.d_max = dd[2], !.width = w,
                                   !.midpoint = mid, !.power = Q(pw, 1)]
                      IN  imp' = [called |-> TRUE,
                                  parameters |-> P,
                                  penetration |-> d,
                                  velocity |-> V3(1, 0, -1),
                                  result |-> ImpAref(d, V3(1, 0, -1), P)]
    /\ UNCHANGED <<mode, pc, kw, params, other, validResult, eqResult, buildArgs,
                   contact, kin, enabled, asm, tol, maxiter, lbfgsOpts, x, opt, W_f_C,
                   raised, call, dataRepr, aux, prev, frame>>

\* The runs that call imp_aref.
ImpSpec == InitMode("imp") /\ [][ImpArefCall]_vars

\* The runs that build parameters from every argument list.
ParamsInit == InitMode("params")
ParamsSpec == ParamsInit /\ [][Next]_vars

\* The runs that build a contact model from every solver_options.
BuildInit == InitMode("build")
BuildSpec == BuildInit /\ [][Next]_vars

(***************************************************************************)
(* Properties of RelaxedRigidContactsParams, checked on ParamsSpec.        *)
(***************************************************************************)
\* The ranges of the data model: time_constant >= 0, damping_coefficient > 0,
\* 0 <= d_min <= d_max <= 1, width > 0, 0 < midpoint < 1, power >= 1, mu >= 0.
DataModelRanges(p) ==
    /\ FGe(p.time_constant, Zero)
    /\ FGt(p.damping_coefficient, Zero)
    /\ FLe(Zero, p.d_min) /\ FLe(p.d_min, p.d_max) /\ FLe(p.d_max, One)
    /\ FGt(p.width, Zero)
    /\ FLt(Zero, p.midpoint) /\ FLt(p.midpoint, One)
    /\ FGe(p.power, One)
    /\ FGe(p.mu, Zero)

\* C4: valid() returns true exactly when all the ranges of the data model
\* hold; in particular it returns false for width = 0, for midpoint = 0 or
\* midpoint >= 1, and for 0 <= power < 1.
C4_ValidExactlyInRanges ==
    validResult # "unset" => ((validResult = "true") <=> DataModelRanges(params))

\* The defaults of the ten fields, as the documentation lists them.
DocumentedDefault(f) ==
    CASE f = "time_constant" -> Q(1, 100)
      [] f = "damping_coefficient" -> Q(1, 1)
      [] f = "d_min" -> Q(9, 10)
      [] f = "d_max" -> Q(95, 100)
      [] f = "width" -> Q(1, 10000)
      [] f = "midpoint" -> Q(1, 10)
      [] f = "power" -> Q(1, 1)
      [] f = "stiffness" -> Q(0, 1)
      [] f = "damping" -> Q(0, 1)
      [] f = "mu" -> Q(1, 2)

\* C8: RelaxedRigidContactsParams.build accepts any subset of the ten fields;
\* each field the caller passes (the value 0 included) is stored as given and
\* each field the caller omits takes its default, whatever the other fields.
C8_PassedStoredOmittedDefault ==
    pc # "start" =>
        \A f \in FieldSet :
            params[f] = IF kw[f] = None THEN DocumentedDefault(f)
                        ELSE Q(kw[f][2], kw[f][3])

\* A build that passes width = 0 and damping = 2 and omits the other fields.
C8_ZeroPassedWitness ==
    /\ pc = "params"
    /\ kw.width = PyInt(0) /\ params.width = Zero
    /\ kw.damping = PyInt(2) /\ params.damping = Two
    /\ kw.mu = None /\ params.mu = Q(1, 2)

\* C9: two RelaxedRigidContactsParams compare equal if and only if all ten
\* fields are equal field by field; instances that differ in a field, or hold
\* the same values in different fields, never compare equal.
C9_EqualIffFieldsEqual ==
    eqResult # "unset" =>
        ((eqResult = "true") <=> (\A f \in FieldSet : params[f] = other[f]))

(***************************************************************************)
(* Properties of RelaxedRigidContacts.build, checked on BuildSpec.         *)
(***************************************************************************)
\* C5: parameters for which valid() is false are rejected when they are
\* constructed, so no RelaxedRigidContacts holding invalid parameters reaches
\* the solve path of compute_contact_forces.
C5_InvalidNeverReachesSolve ==
    (contact.built \/ pc \in {"loop", "done"}) => ParamsValid(contact.parameters)

\* The solver_options of the caller of build, {} when None is passed.
CallerOptions == IF buildArgs.solver_options.some THEN buildArgs.solver_options.val ELSE <<>>

\* Some value of the defaults overlaid with the caller's options is unhashable.
MergedHasUnhashable(so) ==
    \/ \E i \in 1..Len(so) : so[i][2] = PyList
    \/ \E j \in 1..Len(DefaultSolverOptionsKeys) :
          /\ ~HasKey(so, DefaultSolverOptionsKeys[j])
          /\ DefaultSolverOptionsValues[j] = PyList

\* C6: RelaxedRigidContacts.build raises ValueError and returns no instance
\* exactly when a value of the merged solver options is not hashable; extra
\* keyword arguments are ignored, not rejected.
C6_ValueErrorIffUnhashable ==
    pc \in {"built", "build_raised"} =>
        /\ (raised = "ValueError") <=> MergedHasUnhashable(CallerOptions)
        /\ (raised = "ValueError") <=> ~contact.built
        /\ raised \in {"ValueError", "none"}

\* A build whose caller overrides tol with a list and passes an extra keyword.
C6_UnhashableTolWitness ==
    /\ pc = "build_raised"
    /\ raised = "ValueError"
    /\ HasKey(CallerOptions, "tol") /\ DictGet(CallerOptions, "tol") = PyList
    /\ buildArgs.kwargs # <<>>

\* The documented default of tol, maxiter and memory_size: 1e-6, 50, 10.
DocumentedOption(k) ==
    CASE k = "tol" -> PyFloat(1, 1000000)
      [] k = "maxiter" -> PyInt(50)
      [] k = "memory_size" -> PyInt(10)

\* C7: the built instance's solver_options holds tol, maxiter and memory_size,
\* each with the caller's value where the caller gave the key and the default
\* otherwise, and every other caller key unchanged; compute_contact_forces
\* gives tol and maxiter to the stopping rule only and forwards every other
\* option to the optimizer.
C7_OptionsMergedAndSplit ==
    contact.built =>
        /\ \A k \in {"tol", "maxiter", "memory_size"} :
              /\ HasKey(SolverOptions(contact), k)
              /\ DictGet(SolverOptions(contact), k) =
                    IF HasKey(CallerOptions, k) THEN DictGet(CallerOptions, k)
                    ELSE DocumentedOption(k)
        /\ \A i \in 1..Len(CallerOptions) :
              /\ HasKey(SolverOptions(contact), CallerOptions[i][1])
              /\ DictGet(SolverOptions(contact), CallerOptions[i][1]) = CallerOptions[i][2]
        /\ Len(SolverOptions(contact)) =
              Cardinality({"tol", "maxiter", "memory_size"}
                          \cup {CallerOptions[i][1] : i \in 1..Len(CallerOptions)})
        /\ pc \in {"loop", "done", "compute_raised"} =>
              /\ tol = DictGet(SolverOptions(contact), "tol")
              /\ maxiter = DictGet(SolverOptions(contact), "maxiter")
              /\ {lbfgsOpts[i] : i \in 1..Len(lbfgsOpts)} =
                    {e \in {SolverOptions(contact)[i] : i \in 1..Len(SolverOptions(contact))} :
                        e[1] \notin {"tol", "maxiter"}}

\* A call on an instance built with maxiter = 2 and scale_init_precond, and
\* no tol: the loop ran with the default tol, and the optimizer got
\* memory_size and scale_init_precond.
C7_PartialOptionsWitness ==
    /\ pc = "done"
    /\ ~HasKey(CallerOptions, "tol") /\ tol = PyFloat(1, 1000000)
    /\ HasKey(CallerOptions, "maxiter") /\ maxiter = PyInt(2)
    /\ HasKey(lbfgsOpts, "scale_init_precond") /\ HasKey(lbfgsOpts, "memory_size")
    /\ opt.count >= 1

(***************************************************************************)
(* Properties of compute_contact_forces, checked on Spec and FairSpec.     *)
(***************************************************************************)
ZeroWrench == <<Zero, Zero, Zero, Zero, Zero, Zero>>

\* C1: for every call and every enabled point i with penetration >= 0, the
\* returned row W_f_C[i] is the zero 6-vector, whatever the parameters, the
\* other points and the number of iterations run.
C1_InactiveRowsZero ==
    pc = "done" =>
        \A i \in 1..Len(W_f_C) : FGe(asm.delta[i], Zero) => W_f_C[i] = ZeroWrench

\* C2: the loop of run_optimization runs its step at least once in every
\* call, also when the gradient norm of the initial optimizer state is below
\* tol and for every maxiter: the criterion holds whenever the count is 0.
C2_StepAtLeastOnce ==
    /\ pc = "done" => opt.count >= 1
    /\ (pc = "loop" /\ opt.count = 0) =>
          ContinuingCriterion(opt, AsFloatArray(maxiter), AsFloatArray(tol))

\* A call with maxiter = 0 and tol = 1/2 whose initial state holds a zero
\* gradient: it returned after one step.
C2_ForcedFirstStepWitness ==
    /\ pc = "done"
    /\ maxiter = PyInt(0)
    /\ tol = PyFloat(1, 2)
    /\ opt.count = 1

\* The larger of 1 and maxiter.
AtLeastOne(m) == IF FLt(m, One) THEN One ELSE m

\* C3, as the code has it: for every maxiter and tol the loop stops, and the
\* final count is at most max(1, maxiter).
C3_StopsWithinMaxOneMaxiter ==
    /\ [](pc = "done" => FLe(Q(opt.count, 1), AtLeastOne(AsFloatArray(maxiter))))
    /\ ((pc = "loop") ~> (pc = "done"))

\* C3, as stated: for every maxiter and tol the loop stops, and the final
\* count never exceeds maxiter.
C3_StopsWithinMaxiter ==
    /\ [](pc = "done" => FLe(Q(opt.count, 1), AsFloatArray(maxiter)))
    /\ ((pc = "loop") ~> (pc = "done"))

\* A call with maxiter = 2 and tol = 1/2 that stopped at the count 2 with a
\* point in contact.
C3_RanToMaxiterWitness ==
    /\ pc = "done"
    /\ maxiter = PyInt(2)
    /\ tol = PyFloat(1, 2)
    /\ opt.count = 2
    /\ \E i \in 1..Len(asm.delta) : FLt(asm.delta[i], Zero)

\* K_f and D_f by the sign of stiffness and of damping.
StatedStiffness(P) ==
    IF FLt(P.stiffness, Zero) THEN FDiv(FNeg(P.stiffness), FMul(P.d_max, P.d_max))
    ELSE FDiv(One, FMul(FMul(FMul(P.d_max, P.time_constant), P.damping_coefficient),
                        FMul(FMul(P.d_max, P.time_constant), P.damping_coefficient)))

StatedDamping(P) ==
    IF FLt(P.damping, Zero) THEN FDiv(FNeg(P.damping), P.d_max)
    ELSE FDiv(Two, FMul(P.d_max, P.time_constant))

\* C10: for every active point K_f and D_f are chosen independently by the
\* sign of stiffness and of damping; for every inactive point the returned K
\* and D are 0.
C10_StiffnessDampingByBranch ==
    pc \in {"loop", "done"} =>
        \A i \in 1..Len(asm.delta) :
            /\ FLt(asm.delta[i], Zero) =>
                  /\ asm.K[i] = StatedStiffness(contact.parameters)
                  /\ asm.D[i] = StatedDamping(contact.parameters)
            /\ FGe(asm.delta[i], Zero) =>
                  /\ asm.K[i] = Zero
                  /\ asm.D[i] = Zero

\* The rows of a matrix, or the entries of a vector, that belong to point i.
Rows3(m, i) == <<m[3 * i - 2], m[3 * i - 1], m[3 * i]>>

\* C11: an enabled point whose penetration is NaN contributes zero to every
\* quantity that enters the optimization: its Jacobian rows, its a_ref, R, K,
\* D and warm-start entries are exactly zero, its output row is zero, and no
\* exception is raised.
C11_NaNPenetrationContributesZero ==
    pc \in {"loop", "done"} =>
        \A i \in 1..Len(asm.delta) :
            IsNaN(asm.delta[i]) =>
                /\ raised = "none"
                /\ \A r \in 1..3 : \A c \in 1..Len(asm.Jl[1]) :
                      /\ Rows3(asm.Jl, i)[r][c] = Zero
                      /\ Rows3(asm.Jdl, i)[r][c] = Zero
                /\ Rows3(asm.a_ref, i) = <<Zero, Zero, Zero>>
                /\ \A r \in 1..3 : Rows3(asm.R, i)[r][3 * (i - 1) + r] = Zero
                /\ asm.K[i] = Zero
                /\ asm.D[i] = Zero
                /\ Rows3(asm.init_params, i) = <<Zero, Zero, Zero>>
                /\ pc = "done" => W_f_C[i] = ZeroWrench
\* The leading dimension of the array the caller passed differs from n.
LeadingDiffers(arg, n) == arg.some /\ (Len(arg.val) = 0 \/ arg.val[1] # n)

\* The array the caller passed, without its dimensions of size one and
\* padded in front to least dimensions, differs from shape.
SqueezedDiffers(arg, shape, least) ==
    LET IsNotOne(d) == d # 1
        sq == SelectSeq(arg.val, IsNotOne)
        ones == [i \in 1..(least - Len(sq)) |-> 1]
    IN  arg.some /\ (IF Len(sq) < least THEN ones \o sq ELSE sq) # shape

\* The first step of a call has raised ValueError and left what the
\* kinematics, the regularizers and the solver produce as it was.
RaisedAtTop ==
    /\ raised' = "ValueError"
    /\ pc' = "compute_raised"
    /\ UNCHANGED <<asm, tol, maxiter, lbfgsOpts, x, opt, W_f_C, aux>>

SameByPoint(m, e, n, f) ==
    \A i \in 1..Len(e) : \A j \in 1..Len(f) : e[i] = f[j] => m[i] = n[j]

\* C13: of two calls on the same model and data that differ in the order of
\* indices_of_enabled_collidable_points at most, the rows of the two W_f_C
\* that belong to the same point are equal, and so are the point's
\* penetration, reference acceleration, regularization, stiffness, damping
\* and warm start; the second call's quantities are in its own order.
C13_PermutedIndicesPermuteRows ==
    (prev.called /\ pc = "done") =>
        /\ SameByPoint(W_f_C, enabled, prev.W_f_C, prev.enabled)
        /\ LET first == Assemble(kin, prev.enabled, contact.parameters)
               Per(a) == [i \in 1..Len(a.delta) |->
                            <<a.delta[i], Rows3(a.a_ref, i), a.K[i], a.D[i],
                              Rows3(a.init_params, i),
                              [r \in 1..3 |-> Rows3(a.R, i)[r][3 * (i - 1) + r]],
                              Rows3(a.Jl, i)>>]
           IN  SameByPoint(Per(asm), enabled, Per(first), prev.enabled)

\* The second call took the points in the other order and returned two
\* different rows, one of them a force.
C13_SwappedRowsWitness ==
    /\ prev.called
    /\ pc = "done"
    /\ enabled # prev.enabled
    /\ W_f_C[1] # W_f_C[2]
    /\ W_f_C[1] # ZeroWrench
    /\ W_f_C[1] = prev.W_f_C[Len(prev.W_f_C)]

Cross(a, b) ==
    <<FSub(FMul(a[2], b[3]), FMul(a[3], b[2])),
      FSub(FMul(a[3], b[1]), FMul(a[1], b[3])),
      FSub(FMul(a[1], b[2]), FMul(a[2], b[1]))>>

C17_ObjectiveNonIncreasing ==
    [][StepTaken => FLe(Objective(x', asm.A, asm.b), Objective(x, asm.A, asm.b))]_vars

\* err < tol for err = sqrt(err2), decided on the squares.
ErrLtTol(err2, t) ==
    IF IsNaN(err2) \/ IsNaN(t) THEN FALSE
    ELSE IF FLe(t, Zero) \/ IsInf(err2) THEN FALSE
    ELSE IF IsInf(t) THEN TRUE
    ELSE FLt(err2, FMul(t, t))

\* The loop ends without an error and returns the iterate of the state it
\* ended in.
NormalReturn ==
    /\ raised' = "none"
    /\ x' = x
    /\ W_f_C' = ProjectForces(x, asm.position)

\* C20 as stated: after the first iteration the loop goes on exactly while
\* k < maxiter and the gradient norm of the state is >= tol, and it stops, at
\* the first state with k >= 1 where the gradient norm is < tol or
\* k >= maxiter, with a normal return of that state's iterate.
C20_StopsBelowTolOrAtMaxiter ==
    [][(pc = "loop" /\ opt.count >= 1) =>
          /\ StepTaken <=>
                /\ FLt(Q(opt.count, 1), AsFloatArray(maxiter))
                /\ ErrGeTol(NormSq(opt.grad), AsFloatArray(tol))
          /\ FinishTaken <=>
                \/ ErrLtTol(NormSq(opt.grad), AsFloatArray(tol))
                \/ FGe(Q(opt.count, 1), AsFloatArray(maxiter))
          /\ FinishTaken => NormalReturn]_vars

\* C20: after the first iteration the loop goes on exactly while k < maxiter
\* and the gradient norm of the state is >= tol, and it stops, at the first
\* state with k >= 1 where that test fails, with a normal return of that
\* state's iterate; with a tol that is NaN the test fails although the
\* gradient norm is not < tol and k is not >= maxiter.
C20_StopsWhenTestFails ==
    [][(pc = "loop" /\ opt.count >= 1) =>
          /\ StepTaken <=>
                /\ FLt(Q(opt.count, 1), AsFloatArray(maxiter))
                /\ ErrGeTol(NormSq(opt.grad), AsFloatArray(tol))
          /\ FinishTaken <=>
                ~(/\ FLt(Q(opt.count, 1), AsFloatArray(maxiter))
                  /\ ErrGeTol(NormSq(opt.grad), AsFloatArray(tol)))
          /\ FinishTaken => NormalReturn]_vars

\* A call has returned at the count maxiter with a gradient norm that is
\* not 0 and still >= tol.
C20_MaxiterReachedWitness ==
    /\ pc = "done"
    /\ raised = "none"
    /\ Q(opt.count, 1) = AsFloatArray(maxiter)
    /\ IsFinite(NormSq(opt.grad))
    /\ NormSq(opt.grad) # Zero
    /\ ErrGeTol(NormSq(opt.grad), AsFloatArray(tol))

\* C18: in a model with frames, name_to_idx of the name of the k-th frame
\* (from 0) is k + number_of_links and idx_to_name of that index is the
\* name; names_to_idxs and idxs_to_names give, place by place and in the
\* order of their argument, what name_to_idx and idx_to_name give; a name of
\* no frame of the model has the index -1.
C18_NamesAndIndicesRoundTrip ==
    LET m == frame.model
        nl == m.number_of_links
        IsName(n) == \E k \in 1..Len(m.frames) : m.frames[k].name = n
    IN  /\ frame.op = "name_to_idx" =>
              /\ \A k \in 1..Len(m.frames) :
                    m.frames[k].name = frame.frame_name =>
                        /\ frame.result = k - 1 + nl
                        /\ idx_to_name(m, frame.result) =
                              [raised |-> "none", val |-> frame.frame_name]
              /\ ~IsName(frame.frame_name) => frame.result = -1
        /\ frame.op = "idx_to_name" =>
              \A k \in 1..Len(m.frames) :
                 frame.frame_index = k - 1 + nl =>
                    /\ frame.result = [raised |-> "none", val |-> m.frames[k].name]
                    /\ name_to_idx(m, frame.result.val) = frame.frame_index
        /\ frame.op = "names_to_idxs" =>
              /\ Len(frame.result) = Len(frame.frame_names)
              /\ \A j \in 1..Len(frame.frame_names) :
                    /\ \A k \in 1..Len(m.frames) :
                          m.frames[k].name = frame.frame_names[j] =>
                              frame.result[j] = k - 1 + nl
                    /\ ~IsName(frame.frame_names[j]) => frame.result[j] = -1
        /\ (/\ frame.op = "idxs_to_names"
            /\ \A j \in 1..Len(frame.frame_indices) :
                  frame.frame_indices[j] \in nl..(nl + Len(m.frames) - 1)) =>
                 /\ frame.result.raised = "none"
                 /\ Len(frame.result.val) = Len(frame.frame_indices)
                 /\ \A j \in 1..Len(frame.frame_indices) :
                       frame.result.val[j] = m.frames[frame.frame_indices[j] - nl + 1].name

\* names_to_idxs was called with the second frame's name before the first's
\* in a model of two links.
C18_TwoNamesWitness ==
    /\ frame.op = "names_to_idxs"
    /\ frame.model.number_of_links = 2
    /\ Len(frame.model.frames) = 2
    /\ frame.frame_names = <<frame.model.frames[2].name, frame.model.frames[1].name>>
    /\ frame.result = <<3, 2>>

\* C19: for every frame of the model and each of Inertial, Body and Mixed,
\* jacobian returns a 6 x (6 + n) matrix and raises nothing; with
\* output_vel_repr None the representation is the data's; every other value
\* raises ValueError.
C19_JacobianForEveryRepresentation ==
    frame.op = "jacobian" =>
        LET repr == IF frame.output_vel_repr = "None"
                    THEN frame.data.velocity_representation
                    ELSE frame.output_vel_repr
        IN  /\ frame.result.repr = repr
            /\ repr \in {"inertial", "body", "mixed"} =>
                  /\ frame.result.raised = "none"
                  /\ frame.result.shape = <<6, 6 + frame.model.dofs>>
            /\ repr \notin {"inertial", "body", "mixed"} =>
                  frame.result.raised = "ValueError"

\* The quadratic form x' A x.
QuadForm(A, v) == Dot(v, MatVec(A, v))

\* The vectors e_i, e_i + e_j and e_i - e_j of length n.
ProbeVectors(n) ==
    {[k \in 1..n |-> IF k = i THEN One ELSE IF k = j THEN s ELSE Zero] :
        i \in 1..n, j \in 1..n, s \in {Zero, One, FNeg(One)}}

\* Parameters in the ranges of the data model with a positive time constant,
\* and penetrations that are numbers.
ValidInputs ==
    /\ DataModelRanges(contact.parameters)
    /\ FGt(contact.parameters.time_constant, Zero)
    /\ \A i \in 1..Len(asm.delta) : IsFinite(asm.delta[i])

\* C21: for valid inputs the matrix A = G + R is strictly positive definite,
\* with inactive points among the enabled ones too: A is symmetric, every
\* entry of its diagonal is > 0, and x' A x > 0 for the unit vectors and the
\* sums and differences of two of them (each a consequence of positive
\* definiteness).
C21_AStrictlyPositiveDefinite ==
    (pc \in {"loop", "done"} /\ ValidInputs) =>
        /\ asm.A = Transpose(asm.A)
        /\ \A i \in 1..Len(asm.A) : FGt(asm.A[i][i], Zero)
        /\ \A v \in ProbeVectors(Len(asm.A)) : FGt(QuadForm(asm.A, Sq(v)), Zero)

\* Branch a of the impedance profile, x^p / midpoint^(p - 1), and branch b,
\* 1 - (1 - x)^p / (1 - midpoint)^(p - 1), for an integer power p.
StatedBranchA(xx, P) ==
    FDiv(FPowNat(xx, P.power[1]), FPowNat(P.midpoint, P.power[1] - 1))

StatedBranchB(xx, P) ==
    FSub(One, FDiv(FPowNat(FSub(One, xx), P.power[1]),
                   FPowNat(FSub(One, P.midpoint), P.power[1] - 1)))

\* x of component c of imp_aref: abs(position) / width for
\* position = (0, 0, penetration).
ImpX(c) == FDiv(FAbs(IF c = 3 THEN imp.penetration ELSE Zero), imp.parameters.width)

StatedWarmStart(i) ==
    <<FAdd(FMul(asm.K[i], Zero), FMul(asm.D[i], asm.velocity[i][1])),
      FAdd(FMul(asm.K[i], Zero), FMul(asm.D[i], asm.velocity[i][2])),
      FAdd(FMul(asm.K[i], asm.delta[i]), FMul(asm.D[i], asm.velocity[i][3]))>>

\* C23: the initial point of the optimizer is, in the order of the enabled
\* points, the concatenation of (0, 0, K_i delta_i) + D_i v_i with K_i and D_i
\* the stiffness and damping the regularizer returns, and the three entries
\* of an inactive point (delta_i >= 0) are exactly zero, also for v_i # 0 and
\* delta_i > 0.
C23_WarmStartZeroWhereInactive ==
    pc \in {"loop", "done"} =>
        /\ Len(asm.init_params) = 3 * Len(asm.delta)
        /\ \A i \in 1..Len(asm.delta) :
              /\ Rows3(asm.init_params, i) = StatedWarmStart(i)
              /\ FGe(asm.delta[i], Zero) =>
                    Rows3(asm.init_params, i) = <<Zero, Zero, Zero>>

====
